---------------------------- MODULE Spec2Model ----------------------------
(*************************************************************************)
(* A model of the scheduling policies and resource protocols of pa2.c:   *)
(* the eight schedulers (FIFO, SJF, SRTF, RR, Priority, Priority+aging,  *)
(* Priority+PCP, Priority+PIP), each a schedule() function paired with   *)
(* an acquire()/release() pair, driven tick by tick by the simulation    *)
(* framework.                                                            *)
(*************************************************************************)
EXTENDS Integers, Sequences, FiniteSets

(* ------------------------------ bounds ------------------------------ *)
NumProcs == 3
NumRes == 2
MaxLife == 3
MaxPrioLife == 2
MaxBasePrio == 1
AgingMaxLife == 4
AgingHighPrio == 5

(* ------------------------- program constants ------------------------ *)
MAX_PRIO == 64

Procs == 1..NumProcs
Res == 1..NumRes
None == 0

FcfsScheds == {"fifo", "sjf", "srtf", "rr"}
PrioScheds == {"prio", "pa", "pcp", "pip"}
Scheds == FcfsScheds \cup PrioScheds

VARIABLES
    sched,       \* the scheduler the simulation was started with
    current,     \* extern struct process *current (None = NULL)
    readyqueue,  \* extern struct list_head readyqueue, head first
    owner,       \* resources[r].owner (None = NULL)
    waitqueue,   \* resources[r].waitqueue, head first
    status,      \* process->status; "NEW" = not forked yet
    age,         \* process->age
    lifespan,    \* process->lifespan
    prio,        \* process->prio
    prio_orig,   \* process->prio_orig
    pending,     \* the resource a process asked for and was denied
    nest,        \* workload class: may a process hold two resources at once
    pc,          \* position of the driver inside a tick
    last,        \* the last callback made by the driver and its outcome
    blockOrder,  \* per resource, the blocked processes in blocking order
    reqOrder,    \* per resource, the processes asking for it, not yet admitted
    plain,       \* all processes forked before the first tick, no acquire yet
    waited       \* schedule() calls a process sat through in the ready queue

vars == <<sched, current, readyqueue, owner, waitqueue, status, age, lifespan,
          prio, prio_orig, pending, nest, pc, last, blockOrder, reqOrder, plain,
          waited>>

(* ------------------------------ helpers ----------------------------- *)
InSeq(x, s) == \E i \in 1..Len(s) : s[i] = x

Count(x, s) == Cardinality({i \in 1..Len(s) : s[i] = x})

IndexOf(x, s) == CHOOSE i \in 1..Len(s) : s[i] = x

\* list_del_init(&p->list)
list_del_init(p, s) == SelectSeq(s, LAMBDA x : x # p)

\* list_add_tail(&p->list, &s)
list_add_tail(p, s) == Append(s, p)

Held(p) == {r \in Res : owner[r] = p}

NoLast == [op |-> "none", p |-> None, r |-> None, ok |-> FALSE, pos |-> 0]

(* ------------------------------- Init ------------------------------- *)
Init ==
    /\ sched \in Scheds
    /\ current = None
    /\ readyqueue = <<>>
    /\ owner = [r \in Res |-> None]
    /\ waitqueue = [r \in Res |-> <<>>]
    /\ status = [p \in Procs |-> "NEW"]
    /\ age = [p \in Procs |-> 0]
    /\ lifespan \in [Procs -> 1..(IF sched \in FcfsScheds THEN MaxLife ELSE MaxPrioLife)]
    /\ prio_orig \in [Procs -> 0..(IF sched \in FcfsScheds THEN 0 ELSE MaxBasePrio)]
    /\ prio = prio_orig
    /\ pending = [p \in Procs |-> None]
    /\ nest \in BOOLEAN
    /\ pc = "sched"
    /\ last = NoLast
    /\ blockOrder = [r \in Res |-> <<>>]
    /\ reqOrder = [r \in Res |-> <<>>]
    /\ plain = TRUE
    /\ waited = [p \in Procs |-> 0]


(* ----------------------- resource protocols ------------------------- *)
\* mutant: the test looks at the wait queue instead of the owner
ResourceFreeWrongField(r) == waitqueue[r] = <<>>

\* if (!r->owner)
ResourceFree(r) == owner[r] = None

\* mutant: the waiter that came last is taken
LastWaiter(r) == waitqueue[r][Len(waitqueue[r])]

\* the waiter fcfs_release()/pcp_release() wake: list_first_entry(&r->waitqueue)
FirstWaiter(r) == Head(waitqueue[r])

\* the scan of prio_release()/pip_release(): keep the first waiter of the
\* largest prio (waiter is replaced only when waiter->prio < cur->prio)
RECURSIVE PrioWaiterScan(_, _, _)
PrioWaiterScan(q, i, waiter) ==
    IF i > Len(q) THEN waiter
    ELSE PrioWaiterScan(q, i + 1, IF prio[waiter] < prio[q[i]] THEN q[i] ELSE waiter)

\* mutant: the waiter at the head is taken, whatever its priority
PrioWaiterHead(r) == Head(waitqueue[r])

PrioWaiter(r) == PrioWaiterScan(waitqueue[r], 1, Head(waitqueue[r]))

\* the tail shared by the four acquire functions: the caller blocks
BlockCurrent(r) ==
    /\ status' = [status EXCEPT ![current] = "WAIT"]
    /\ waitqueue' = [waitqueue EXCEPT ![r] = list_add_tail(current, @)]

\* mutant: the waiter is not taken out of the wait queue
WakeUpNoDel(r, waiter) ==
    /\ UNCHANGED waitqueue
    /\ status' = [status EXCEPT ![waiter] = "READY"]
    /\ readyqueue' = list_add_tail(waiter, readyqueue)

\* mutant: the waiter is never put into the ready queue
WakeUpLost(r, waiter) ==
    /\ waitqueue' = [waitqueue EXCEPT ![r] = list_del_init(waiter, @)]
    /\ status' = [status EXCEPT ![waiter] = "READY"]
    /\ UNCHANGED readyqueue

\* mutant: the waiter is unlinked from the wait queue and nothing else
WakeUpDropped(r, waiter) ==
    /\ waitqueue' = [waitqueue EXCEPT ![r] = list_del_init(waiter, @)]
    /\ UNCHANGED <<status, readyqueue>>

\* the tail shared by the four release functions: wake one waiter
WakeUp(r, waiter) ==
    /\ waitqueue' = [waitqueue EXCEPT ![r] = list_del_init(waiter, @)]
    /\ status' = [status EXCEPT ![waiter] = "READY"]
    /\ readyqueue' = list_add_tail(waiter, readyqueue)

fcfs_acquire(r, ret) ==
    IF ResourceFree(r)
    THEN /\ owner' = [owner EXCEPT ![r] = current]
         /\ ret = TRUE
         /\ UNCHANGED <<status, waitqueue, prio>>
    ELSE /\ BlockCurrent(r)
         /\ ret = FALSE
         /\ UNCHANGED <<owner, prio>>

fcfs_release(r) ==
    /\ owner[r] = current                         \* assert(r->owner == current)
    /\ owner' = [owner EXCEPT ![r] = None]
    /\ IF waitqueue[r] # <<>>
       THEN /\ status[FirstWaiter(r)] = "WAIT"    \* assert(waiter->status == PROCESS_WAIT)
            /\ WakeUp(r, FirstWaiter(r))
       ELSE UNCHANGED <<waitqueue, status, readyqueue>>
    /\ UNCHANGED prio

prio_release(r) ==
    /\ owner[r] = current
    /\ owner' = [owner EXCEPT ![r] = None]
    /\ IF waitqueue[r] # <<>>
       THEN /\ status[PrioWaiter(r)] = "WAIT"
            /\ WakeUp(r, PrioWaiter(r))
       ELSE UNCHANGED <<waitqueue, status, readyqueue>>
    /\ UNCHANGED prio

pcp_acquire(r, ret) ==
    IF ResourceFree(r)
    THEN /\ prio' = [prio EXCEPT ![current] = MAX_PRIO]
         /\ owner' = [owner EXCEPT ![r] = current]
         /\ ret = TRUE
         /\ UNCHANGED <<status, waitqueue>>
    ELSE /\ BlockCurrent(r)
         /\ ret = FALSE
         /\ UNCHANGED <<owner, prio>>

pcp_release(r) ==
    /\ owner[r] = current
    /\ prio' = [prio EXCEPT ![current] = prio_orig[current]]
    /\ owner' = [owner EXCEPT ![r] = None]
    /\ IF waitqueue[r] # <<>>
       THEN /\ status[FirstWaiter(r)] = "WAIT"
            /\ WakeUp(r, FirstWaiter(r))
       ELSE UNCHANGED <<waitqueue, status, readyqueue>>

pip_acquire(r, ret) ==
    IF ResourceFree(r)
    THEN /\ owner' = [owner EXCEPT ![r] = current]
         /\ ret = TRUE
         /\ UNCHANGED <<status, waitqueue, prio>>
    ELSE /\ prio' = [prio EXCEPT ![owner[r]] = prio[current]]
         /\ BlockCurrent(r)
         /\ ret = FALSE
         /\ UNCHANGED owner

\* mutant: the release leaves the inherited priority in place
pip_release_keep_boost(r) ==
    /\ owner[r] = current
    /\ owner' = [owner EXCEPT ![r] = None]
    /\ IF waitqueue[r] # <<>>
       THEN /\ status[PrioWaiter(r)] = "WAIT"
            /\ WakeUp(r, PrioWaiter(r))
       ELSE UNCHANGED <<waitqueue, status, readyqueue>>
    /\ UNCHANGED prio

pip_release(r) ==
    /\ owner[r] = current
    /\ prio' = [prio EXCEPT ![owner[r]] = prio_orig[current]]
    /\ owner' = [owner EXCEPT ![r] = None]
    /\ IF waitqueue[r] # <<>>
       THEN /\ status[PrioWaiter(r)] = "WAIT"
            /\ WakeUp(r, PrioWaiter(r))
       ELSE UNCHANGED <<waitqueue, status, readyqueue>>

(* ------------------------ scheduling policies ----------------------- *)
\* mutant: a blocked current process is treated like a running one
HasRemainingNoWaitTest ==
    /\ current # None
    /\ age[current] < lifespan[current]

\* !(!current || current->status == PROCESS_WAIT) && current->age < current->lifespan
HasRemaining ==
    /\ current # None
    /\ status[current] # "WAIT"
    /\ age[current] < lifespan[current]

\* mutant: list_add instead of list_add_tail, current is scanned first
RequeuedAtHead == IF HasRemaining THEN <<current>> \o readyqueue ELSE readyqueue

\* the ready queue the selection scans when the policy requeues current
Requeued == IF HasRemaining THEN list_add_tail(current, readyqueue) ELSE readyqueue

\* mutant: >= instead of >, the last of the shortest jobs wins
RECURSIVE SjfScanLastMin(_, _, _)
SjfScanLastMin(q, i, next) ==
    IF i > Len(q) THEN next
    ELSE SjfScanLastMin(q, i + 1,
                        IF lifespan[next] >= lifespan[q[i]] THEN q[i] ELSE next)

\* sjf_schedule's scan: next is replaced only when next->lifespan > cur->lifespan
RECURSIVE SjfScan(_, _, _)
SjfScan(q, i, next) ==
    IF i > Len(q) THEN next
    ELSE SjfScan(q, i + 1, IF lifespan[next] > lifespan[q[i]] THEN q[i] ELSE next)

\* mutant: the scan compares the lifespans, not the remaining times
RECURSIVE SrtfScanLifespan(_, _, _)
SrtfScanLifespan(q, i, next) ==
    IF i > Len(q) THEN next
    ELSE SrtfScanLifespan(q, i + 1,
                          IF lifespan[next] > lifespan[q[i]] THEN q[i] ELSE next)

\* srtf_schedule's scan, on the remaining time lifespan - age
RECURSIVE SrtfScan(_, _, _)
SrtfScan(q, i, next) ==
    IF i > Len(q) THEN next
    ELSE SrtfScan(q, i + 1,
                  IF (lifespan[next] - age[next]) > (lifespan[q[i]] - age[q[i]])
                  THEN q[i] ELSE next)

\* mutant: <= instead of <, the last of the largest priorities wins
RECURSIVE PrioScanLastMax(_, _, _)
PrioScanLastMax(q, i, next) ==
    IF i > Len(q) THEN next
    ELSE PrioScanLastMax(q, i + 1, IF prio[next] <= prio[q[i]] THEN q[i] ELSE next)

\* prio_schedule's scan: next is replaced only when next->prio < cur->prio
RECURSIVE PrioScan(_, _, _)
PrioScan(q, i, next) ==
    IF i > Len(q) THEN next
    ELSE PrioScan(q, i + 1, IF prio[next] < prio[q[i]] THEN q[i] ELSE next)

\* mutant: the scan of prio_schedule, without the boost
RECURSIVE PaScanNoBoost(_, _, _, _)
PaScanNoBoost(q, i, next, pr) ==
    IF i > Len(q) THEN [next |-> next, prio |-> pr]
    ELSE PaScanNoBoost(q, i + 1, IF pr[next] < pr[q[i]] THEN q[i] ELSE next, pr)

\* pa_schedule's scan: cur->prio++ first, then the comparison, on the
\* priorities as the loop has updated them so far
RECURSIVE PaScan(_, _, _, _)
PaScan(q, i, next, pr) ==
    IF i > Len(q) THEN [next |-> next, prio |-> pr]
    ELSE LET pr2 == [pr EXCEPT ![q[i]] = @ + 1]
         IN  PaScan(q, i + 1, IF pr2[next] < pr2[q[i]] THEN q[i] ELSE next, pr2)

fifo_schedule(next) ==
    /\ IF HasRemaining
       THEN next = current /\ UNCHANGED readyqueue
       ELSE IF readyqueue # <<>>
            THEN /\ next = Head(readyqueue)
                 /\ readyqueue' = list_del_init(next, readyqueue)
            ELSE next = None /\ UNCHANGED readyqueue
    /\ UNCHANGED prio

sjf_schedule(next) ==
    /\ IF HasRemaining
       THEN next = current /\ UNCHANGED readyqueue
       ELSE IF readyqueue # <<>>
            THEN /\ next = SjfScan(readyqueue, 1, Head(readyqueue))
                 /\ readyqueue' = list_del_init(next, readyqueue)
            ELSE next = None /\ UNCHANGED readyqueue
    /\ UNCHANGED prio

srtf_schedule(next) ==
    /\ IF Requeued # <<>>
       THEN /\ next = SrtfScan(Requeued, 1, Head(Requeued))
            /\ readyqueue' = list_del_init(next, Requeued)
       ELSE next = None /\ UNCHANGED readyqueue
    /\ UNCHANGED prio

\* mutant: the current process keeps the processor while it has lifespan left
rr_schedule_no_requeue(next) ==
    /\ IF HasRemaining
       THEN next = current /\ UNCHANGED readyqueue
       ELSE IF readyqueue # <<>>
            THEN /\ next = Head(readyqueue)
                 /\ readyqueue' = list_del_init(next, readyqueue)
            ELSE next = None /\ UNCHANGED readyqueue
    /\ UNCHANGED prio

rr_schedule(next) ==
    /\ IF Requeued # <<>>
       THEN /\ next = Head(Requeued)
            /\ readyqueue' = list_del_init(next, Requeued)
       ELSE next = None /\ UNCHANGED readyqueue
    /\ UNCHANGED prio

prio_schedule(next) ==
    /\ IF Requeued # <<>>
       THEN /\ next = PrioScan(Requeued, 1, Head(Requeued))
            /\ readyqueue' = list_del_init(next, Requeued)
       ELSE next = None /\ UNCHANGED readyqueue
    /\ UNCHANGED prio

pa_schedule(next) ==
    LET reset == IF HasRemaining
                 THEN [prio EXCEPT ![current] = prio_orig[current]]
                 ELSE prio
    IN  IF Requeued # <<>>
        THEN LET res == PaScan(Requeued, 1, Head(Requeued), reset)
             IN  /\ next = res.next
                 /\ prio' = res.prio
                 /\ readyqueue' = list_del_init(next, Requeued)
        ELSE /\ next = None
             /\ prio' = reset
             /\ UNCHANGED readyqueue

(* ---------------------- the simulation driver ----------------------- *)
\* some process has been scheduled already
Started == \E p \in Procs : status[p] \notin {"NEW", "READY"} \/ age[p] > 0

\* The framework forks the processes of the workload in their order.
Fork(p) ==
    /\ pc \in {"sched", "rel"}
    /\ status[p] = "NEW"
    /\ \A q \in Procs : q < p => status[q] # "NEW"
    /\ status' = [status EXCEPT ![p] = "READY"]
    /\ readyqueue' = list_add_tail(p, readyqueue)
    /\ last' = [NoLast EXCEPT !.op = "fork", !.p = p]
    /\ plain' = (plain /\ ~Started)
    /\ UNCHANGED <<sched, current, owner, waitqueue, age, lifespan, prio,
                   prio_orig, pending, nest, pc, blockOrder, reqOrder, waited>>

\* schedule() is called at the start of a tick; a process that ran its last
\* tick has released what it held
ScheduleCall ==
    /\ pc \in {"sched", "rel"}
    /\ (current # None /\ age[current] = lifespan[current]) => Held(current) = {}

\* what the driver does with the process schedule() returned: the previous
\* process leaves RUNNING (and exits when complete), the next one enters it
ScheduleReturn(next, scanned) ==
    /\ current' = next
    /\ status' = [p \in Procs |->
                    IF p = next THEN "RUNNING"
                    ELSE IF p = current /\ status[p] = "RUNNING"
                         THEN (IF age[p] = lifespan[p] THEN "EXIT" ELSE "READY")
                         ELSE status[p]]
    /\ pc' = IF next = None THEN "sched" ELSE "acq"
    /\ last' = [op |-> "schedule", p |-> next, r |-> None,
                ok |-> (next # None /\ next = current),
                pos |-> IF InSeq(next, scanned) THEN IndexOf(next, scanned) ELSE 0]
    /\ waited' = [p \in Procs |->
                    IF sched = "pa" /\ p # next /\ InSeq(p, scanned)
                    THEN waited[p] + 1 ELSE 0]
    /\ UNCHANGED <<sched, owner, waitqueue, age, lifespan, prio_orig, pending,
                   nest, blockOrder, reqOrder, plain>>

\* acquire(r) is called for the running process before it makes progress: a
\* process that was denied r asks for r again, and no process asks for a
\* resource it holds
AcquireCall(r) ==
    /\ pc = "acq"
    /\ owner[r] # current
    /\ pending[current] \in {None, r}
    /\ age[current] < lifespan[current]
    /\ nest \/ Held(current) = {}

AcquireReturn(r, ret) ==
    /\ pending' = [pending EXCEPT ![current] = IF ret THEN None ELSE r]
    /\ pc' = IF ret THEN "acq" ELSE "sched"
    /\ last' = [op |-> "acquire", p |-> current, r |-> r, ok |-> ret, pos |-> 0]
    /\ blockOrder' = [blockOrder EXCEPT ![r] = IF ret THEN @ ELSE Append(@, current)]
    /\ reqOrder' = [reqOrder EXCEPT ![r] =
                        IF ret THEN list_del_init(current, @)
                        ELSE IF InSeq(current, @) THEN @ ELSE Append(@, current)]
    /\ plain' = FALSE
    /\ UNCHANGED <<sched, current, readyqueue, age, lifespan, prio_orig, nest,
                   waited>>

\* the running process, having acquired what it asked for, ages by one tick
Run ==
    /\ pc = "acq"
    /\ pending[current] = None
    /\ age' = [age EXCEPT ![current] = @ + 1]
    /\ pc' = "rel"
    /\ last' = [NoLast EXCEPT !.op = "run", !.p = current]
    /\ UNCHANGED <<sched, current, readyqueue, owner, waitqueue, status, lifespan,
                   prio, prio_orig, pending, nest, blockOrder, reqOrder, plain,
                   waited>>

\* release(r) is called after the tick, for a resource the process holds
ReleaseCall(r) ==
    /\ pc = "rel"
    /\ owner[r] = current

Woken == {p \in Procs : status[p] = "WAIT" /\ status'[p] = "READY"}

ReleaseReturn(r) ==
    /\ last' = IF Woken = {}
               THEN [op |-> "release", p |-> None, r |-> r, ok |-> FALSE, pos |-> 0]
               ELSE LET w == CHOOSE p \in Woken : TRUE
                    IN  [op |-> "release", p |-> w, r |-> r, ok |-> TRUE,
                         pos |-> IF InSeq(w, blockOrder[r])
                                 THEN IndexOf(w, blockOrder[r]) ELSE 0]
    /\ blockOrder' = [blockOrder EXCEPT ![r] = SelectSeq(@, LAMBDA x : x \notin Woken)]
    /\ UNCHANGED <<sched, current, age, lifespan, prio_orig, pending, nest, pc,
                   reqOrder, plain, waited>>

(* ---------------------------- the actions --------------------------- *)
FcfsAcquire(r) ==
    /\ sched \in FcfsScheds \cup {"prio", "pa"}
    /\ AcquireCall(r)
    /\ \E ret \in BOOLEAN : fcfs_acquire(r, ret) /\ AcquireReturn(r, ret)

PcpAcquire(r) ==
    /\ sched = "pcp"
    /\ AcquireCall(r)
    /\ \E ret \in BOOLEAN : pcp_acquire(r, ret) /\ AcquireReturn(r, ret)

PipAcquire(r) ==
    /\ sched = "pip"
    /\ AcquireCall(r)
    /\ \E ret \in BOOLEAN : pip_acquire(r, ret) /\ AcquireReturn(r, ret)

FcfsRelease(r) ==
    /\ sched \in FcfsScheds \cup {"pa"}
    /\ ReleaseCall(r)
    /\ fcfs_release(r)
    /\ ReleaseReturn(r)

PrioRelease(r) ==
    /\ sched = "prio"
    /\ ReleaseCall(r)
    /\ prio_release(r)
    /\ ReleaseReturn(r)

PcpRelease(r) ==
    /\ sched = "pcp"
    /\ ReleaseCall(r)
    /\ pcp_release(r)
    /\ ReleaseReturn(r)

PipRelease(r) ==
    /\ sched = "pip"
    /\ ReleaseCall(r)
    /\ pip_release(r)
    /\ ReleaseReturn(r)

FifoSchedule ==
    /\ sched = "fifo"
    /\ ScheduleCall
    /\ \E next \in Procs \cup {None} :
          fifo_schedule(next) /\ ScheduleReturn(next, readyqueue)

SjfSchedule ==
    /\ sched = "sjf"
    /\ ScheduleCall
    /\ \E next \in Procs \cup {None} :
          sjf_schedule(next) /\ ScheduleReturn(next, readyqueue)

SrtfSchedule ==
    /\ sched = "srtf"
    /\ ScheduleCall
    /\ \E next \in Procs \cup {None} :
          srtf_schedule(next) /\ ScheduleReturn(next, Requeued)

RrSchedule ==
    /\ sched = "rr"
    /\ ScheduleCall
    /\ \E next \in Procs \cup {None} :
          rr_schedule(next) /\ ScheduleReturn(next, Requeued)

PrioSchedule ==
    /\ sched \in {"prio", "pcp", "pip"}
    /\ ScheduleCall
    /\ \E next \in Procs \cup {None} :
          prio_schedule(next) /\ ScheduleReturn(next, Requeued)

PaSchedule ==
    /\ sched = "pa"
    /\ ScheduleCall
    /\ \E next \in Procs \cup {None} :
          pa_schedule(next) /\ ScheduleReturn(next, Requeued)

Next ==
    \/ \E p \in Procs : Fork(p)
    \/ FifoSchedule
    \/ SjfSchedule
    \/ SrtfSchedule
    \/ RrSchedule
    \/ PrioSchedule
    \/ PaSchedule
    \/ \E r \in Res : FcfsAcquire(r)
    \/ \E r \in Res : PcpAcquire(r)
    \/ \E r \in Res : PipAcquire(r)
    \/ Run
    \/ \E r \in Res : FcfsRelease(r)
    \/ \E r \in Res : PrioRelease(r)
    \/ \E r \in Res : PcpRelease(r)
    \/ \E r \in Res : PipRelease(r)

Spec == Init /\ [][Next]_vars

\* Priority + aging on workloads without resources: processes of baseline
\* priority 0 and AgingHighPrio, forked at any tick.
InitAging ==
    /\ sched = "pa"
    /\ current = None
    /\ readyqueue = <<>>
    /\ owner = [r \in Res |-> None]
    /\ waitqueue = [r \in Res |-> <<>>]
    /\ status = [p \in Procs |-> "NEW"]
    /\ age = [p \in Procs |-> 0]
    /\ lifespan \in [Procs -> 1..AgingMaxLife]
    /\ prio_orig \in [Procs -> {0, AgingHighPrio}]
    /\ prio = prio_orig
    /\ pending = [p \in Procs |-> None]
    /\ nest = FALSE
    /\ pc = "sched"
    /\ last = NoLast
    /\ blockOrder = [r \in Res |-> <<>>]
    /\ reqOrder = [r \in Res |-> <<>>]
    /\ plain = TRUE
    /\ waited = [p \in Procs |-> 0]

NextAging ==
    \/ \E p \in Procs : Fork(p)
    \/ PaSchedule
    \/ Run

SpecAging == InitAging /\ [][NextAging]_vars

\* The driver's loop keeps ticking until no process is left.
LiveSpec == Spec /\ WF_vars(Next)

(* ------------------------ steps, as the ghost sees them ------------- *)
AcquireStep(r) == pc = "acq" /\ last'.op = "acquire" /\ last'.r = r

ReleaseStep(r) == pc = "rel" /\ last'.op = "release" /\ last'.r = r

ScheduleStep == pc \in {"sched", "rel"} /\ last'.op = "schedule"

\* the number of places (ready queue, wait sets) a process is linked in
Places(p) ==
    Count(p, readyqueue)
    + Cardinality({x \in Res \X (1..NumProcs) :
                     x[2] <= Len(waitqueue[x[1]]) /\ waitqueue[x[1]][x[2]] = p})

IsRunning(p) == current = p /\ status[p] = "RUNNING"

(* C1: under every scheduler at most one process is RUNNING, it is the    *)
(* current process and it is linked in no queue; every other forked,      *)
(* uncompleted process is in exactly one place, the ready queue or one    *)
(* resource's wait set, and appears there once; a process that is not     *)
(* forked or has completed is in no queue.                                *)
C1_OnePlace ==
    /\ \A p \in Procs : status[p] = "RUNNING" => current = p
    /\ \A p \in Procs :
          IF IsRunning(p) \/ status[p] \in {"NEW", "EXIT"} THEN Places(p) = 0
          ELSE /\ age[p] < lifespan[p]
               /\ Places(p) = 1
               /\ status[p] = "READY" <=> InSeq(p, readyqueue)
               /\ status[p] = "WAIT" <=> ~InSeq(p, readyqueue)

C1_Witness ==
    /\ sched = "srtf"
    /\ \E p, q, w \in Procs :
          /\ IsRunning(p) /\ pc = "acq" /\ last.op = "schedule"
          /\ InSeq(q, readyqueue) /\ age[q] > 0
          /\ \E r \in Res : InSeq(w, waitqueue[r])

(* C2 as stated: every owner is one process or none, and a process that  *)
(* owns a resource is in no resource's wait set.                          *)
C2_OwnerNeverWaits ==
    \A r \in Res :
        /\ owner[r] \in Procs \cup {None}
        /\ owner[r] # None => \A r2 \in Res : ~InSeq(owner[r], waitqueue[r2])

(* C2 amended: every owner is one process or none, and the owner of a    *)
(* resource is never in the wait set of that same resource (it may be in *)
(* the wait set of another resource it asked for while holding this one).*)
C2_OwnerNotInOwnWaitSet ==
    \A r \in Res :
        /\ owner[r] \in Procs \cup {None}
        /\ owner[r] # None => ~InSeq(owner[r], waitqueue[r])

C2_Witness ==
    \E r, r2 \in Res :
        /\ r # r2
        /\ owner[r] # None
        /\ InSeq(owner[r], waitqueue[r2])
        /\ waitqueue[r] # <<>>

(* C3: under the four protocols acquire(r) admits the caller and makes it *)
(* owner exactly when r had no owner; when r is owned the owner stays,    *)
(* the caller becomes WAIT and is appended to the tail of r's wait set.   *)
(* An owner changes only from none to the caller of an admitted acquire,  *)
(* or from the current process to none by its own release.                *)
C3_ExclusiveOwnership ==
    [][\A r \in Res :
          /\ AcquireStep(r) =>
                /\ last'.ok <=> owner[r] = None
                /\ last'.ok => owner'[r] = current
                /\ ~last'.ok =>
                      /\ owner'[r] = owner[r]
                      /\ status'[current] = "WAIT"
                      /\ waitqueue'[r] = Append(waitqueue[r], current)
          /\ owner'[r] # owner[r] =>
                \/ /\ owner[r] = None
                   /\ AcquireStep(r) /\ last'.ok
                   /\ owner'[r] = current
                \/ /\ owner'[r] = None
                   /\ owner[r] = current
                   /\ ReleaseStep(r)]_vars

C3_Witness ==
    /\ sched = "pip"
    /\ last.op = "acquire" /\ ~last.ok
    /\ Len(waitqueue[last.r]) = 2
    /\ waitqueue[last.r][2] = last.p
    /\ owner[last.r] \notin {None, last.p}

AllDone == \A p \in Procs : status[p] = "EXIT"

QueuesEmpty == readyqueue = <<>> /\ \A r \in Res : waitqueue[r] = <<>>

(* C4: under every scheduler, when no process holds two resources at     *)
(* once (and each releases what it holds before its last tick ends), the *)
(* simulation reaches, and stays in, a state where every process has     *)
(* exited with age = lifespan and the ready queue and all wait sets are  *)
(* empty; no age ever exceeds its lifespan and schedule() never returns  *)
(* a process whose age has reached its lifespan.                         *)
C4_AllComplete ==
    /\ [](\A p \in Procs : age[p] <= lifespan[p])
    /\ []((pc = "acq" /\ last.op = "schedule") => age[current] < lifespan[current])
    /\ (~nest => <>[](/\ AllDone
                      /\ \A p \in Procs : age[p] = lifespan[p]
                      /\ QueuesEmpty
                      /\ current = None))

C4_Witness ==
    /\ ~nest
    /\ AllDone
    /\ QueuesEmpty
    /\ \A p \in Procs : age[p] = lifespan[p] /\ lifespan[p] > 1
    /\ sched = "pcp"

FcfsReleaseScheds == FcfsScheds \cup {"pa"}

(* C5: under fcfs_release, a release of r with waiters wakes exactly the *)
(* process that has been blocked on r the longest: it is the head of the *)
(* wait set, it goes from WAIT to READY, leaves the wait set and is      *)
(* appended once to the tail of the ready queue, and nobody else is      *)
(* woken; a release of r without waiters wakes nobody.                   *)
C5_FifoWakeUp ==
    [][\A r \in Res :
          (ReleaseStep(r) /\ sched \in FcfsReleaseScheds) =>
              IF blockOrder[r] = <<>>
              THEN /\ readyqueue' = readyqueue
                   /\ status' = status
                   /\ waitqueue' = waitqueue
              ELSE LET w == Head(blockOrder[r])
                   IN  /\ w = Head(waitqueue[r])
                       /\ status[w] = "WAIT" /\ status'[w] = "READY"
                       /\ \A p \in Procs \ {w} : status'[p] = status[p]
                       /\ waitqueue'[r] = Tail(waitqueue[r])
                       /\ ~InSeq(w, waitqueue'[r])
                       /\ readyqueue' = Append(readyqueue, w)
                       /\ Count(w, readyqueue') = 1
                       /\ blockOrder'[r] = Tail(blockOrder[r])]_vars

C5_Witness ==
    /\ sched = "rr"
    /\ last.op = "release" /\ last.ok
    /\ waitqueue[last.r] # <<>>
    /\ readyqueue # <<>>
    /\ readyqueue[Len(readyqueue)] = last.p

(* C6 as stated: under FIFO, SJF, SRTF and RR a process becomes owner of *)
(* r only when no other process that asked for r earlier is still        *)
(* waiting to be admitted.                                               *)
C6_RequestOrder ==
    [][\A r \in Res :
          (AcquireStep(r) /\ last'.ok /\ sched \in FcfsScheds) =>
              (reqOrder[r] = <<>> \/ Head(reqOrder[r]) = current)]_vars

(* C7: sjf_schedule returns the current process again while it is        *)
(* unfinished and not blocked; otherwise it returns and removes the      *)
(* first process of the smallest lifespan in the ready queue, and none   *)
(* when the queue is empty.                                              *)
C7_Sjf ==
    [][(ScheduleStep /\ sched = "sjf") =>
          IF current # None /\ status[current] # "WAIT" /\ age[current] < lifespan[current]
          THEN current' = current /\ readyqueue' = readyqueue
          ELSE IF readyqueue = <<>>
               THEN current' = None /\ readyqueue' = readyqueue
               ELSE LET n == current'
                    IN  /\ InSeq(n, readyqueue)
                        /\ \A i \in 1..Len(readyqueue) :
                              /\ lifespan[readyqueue[i]] >= lifespan[n]
                              /\ i < IndexOf(n, readyqueue) =>
                                    lifespan[readyqueue[i]] > lifespan[n]
                        /\ readyqueue' = list_del_init(n, readyqueue)
                        /\ ~InSeq(n, readyqueue')]_vars

C7_Witness ==
    /\ sched = "sjf"
    /\ last.op = "schedule" /\ last.pos = 2 /\ ~last.ok
    /\ Len(readyqueue) = 2
    /\ lifespan[readyqueue[1]] > lifespan[current]
    /\ lifespan[readyqueue[2]] = lifespan[current]

(* C8: srtf_schedule returns and removes the first process of the        *)
(* smallest remaining time lifespan - age in the ready queue with the    *)
(* unfinished, non-blocked current process appended at its tail; the     *)
(* current process continues only when every ready process has a         *)
(* strictly larger remaining time.                                       *)
C8_Srtf ==
    [][(ScheduleStep /\ sched = "srtf") =>
          LET cand == IF current # None /\ status[current] # "WAIT"
                         /\ age[current] < lifespan[current]
                      THEN Append(readyqueue, current) ELSE readyqueue
              rem(p) == lifespan[p] - age[p]
          IN  IF cand = <<>>
              THEN current' = None /\ readyqueue' = readyqueue
              ELSE LET n == current'
                   IN  /\ InSeq(n, cand)
                       /\ \A i \in 1..Len(cand) :
                             /\ rem(cand[i]) >= rem(n)
                             /\ i < IndexOf(n, cand) => rem(cand[i]) > rem(n)
                       /\ readyqueue' = list_del_init(n, cand)
                       /\ (n = current /\ cand # readyqueue) =>
                             \A i \in 1..Len(readyqueue) : rem(readyqueue[i]) > rem(n)]_vars

C8_Witness ==
    /\ sched = "srtf"
    /\ last.op = "schedule" /\ ~last.ok /\ last.p = current
    /\ current # None
    /\ age[current] = 0
    /\ readyqueue # <<>>
    /\ LET q == readyqueue[Len(readyqueue)]
       IN  /\ age[q] > 0
           /\ lifespan[q] - age[q] > lifespan[current] - age[current]

Min(a, b) == IF a < b THEN a ELSE b

Forked == {p \in Procs : status[p] # "NEW"}

\* the ticks process q has run when it is the turn of process p, which has
\* run a ticks, in the rotation 1, 2, ..., n, 1, 2, ...
RotationAges(p, a) ==
    \A q \in Forked \ {p} :
        age[q] = Min(lifespan[q], IF q < p THEN a + 1 ELSE a)

(* C9: rr_schedule appends the unfinished, non-blocked current process   *)
(* at the tail and returns and removes the head of the queue, so the     *)
(* process that just ran a tick is not returned while another process is *)
(* ready; with all processes forked before the first tick and no         *)
(* acquire, the processes run in the rotation 1, 2, ..., n, one tick per *)
(* round each, until they complete.                                      *)
C9_RoundRobin ==
    /\ [][(ScheduleStep /\ sched = "rr") =>
             LET cand == IF current # None /\ status[current] # "WAIT"
                            /\ age[current] < lifespan[current]
                         THEN Append(readyqueue, current) ELSE readyqueue
             IN  /\ IF cand = <<>>
                    THEN current' = None /\ readyqueue' = readyqueue
                    ELSE current' = Head(cand) /\ readyqueue' = Tail(cand)
                 /\ (pc = "rel" /\ readyqueue # <<>>) => current' # current]_vars
    /\ []((sched = "rr" /\ plain /\ current # None) =>
             /\ pc = "acq" => RotationAges(current, age[current])
             /\ pc = "rel" => RotationAges(current, age[current] - 1))

C9_Witness ==
    /\ sched = "rr" /\ plain
    /\ Forked = Procs
    /\ lifespan = [p \in Procs |-> MaxLife]
    /\ pc = "rel" /\ current = 2
    /\ age[1] = 2 /\ age[2] = 2 /\ \A p \in Procs : p > 2 => age[p] = 1

\* the schedule() calls a ready process of baseline b sits through at most
WaitBound(b) == (AgingHighPrio - b) + NumProcs - 1

(* C10: under pa_schedule, with processes of baseline priority 0 and     *)
(* AgingHighPrio entering the ready queue at any tick, a process in the  *)
(* ready queue is passed over by at most WaitBound schedule() calls,     *)
(* whatever the lifespans of the other processes: a baseline-0 process   *)
(* is returned after at most AgingHighPrio + NumProcs - 1 calls.         *)
C10_BoundedWait ==
    \A p \in Procs :
        InSeq(p, readyqueue) => waited[p] <= WaitBound(prio_orig[p])

C10_Witness ==
    /\ last.op = "schedule" /\ current # None
    /\ prio_orig[current] = 0
    /\ prio[current] > AgingHighPrio
    /\ Len(readyqueue) = 2
    /\ \A i \in 1..Len(readyqueue) :
          /\ prio_orig[readyqueue[i]] = AgingHighPrio
          /\ age[readyqueue[i]] < lifespan[readyqueue[i]]

(* ------------------------------ C11 --------------------------------- *)
\* C11: under PCP a process that owns a resource has priority MAX_PRIO for
\* as long as it owns it, also while it owns a second resource and releases
\* the other one; a process that owns nothing has its baseline priority.
C11_CeilingWhileHolding ==
    sched = "pcp" =>
        /\ \A r \in Res : owner[r] # None => prio[owner[r]] = MAX_PRIO
        /\ \A p \in Procs : Held(p) = {} => prio[p] = prio_orig[p]

(* ------------------------------ C12 --------------------------------- *)
\* C12: under PIP, a denied acquire leaves the owner of the resource with the
\* priority of the requester, and that priority is never lower than the one
\* the owner had before the call.
C12_InheritanceRaises ==
    [][\A r \in Res :
          (sched = "pip" /\ AcquireStep(r) /\ ~last'.ok) =>
             /\ prio'[owner[r]] = prio[current]
             /\ prio'[owner[r]] >= prio[owner[r]]]_vars

(* ------------------------------ C13 --------------------------------- *)
\* C13: under PIP the process that has just released a resource has its
\* baseline priority, whatever it inherited while it held the resource, and
\* no step changes a baseline priority.
C13_RestoredToBaseline ==
    [][/\ prio_orig' = prio_orig
       /\ \A r \in Res :
             (sched = "pip" /\ ReleaseStep(r)) =>
                prio'[current] = prio_orig[current]]_vars

\* a release after two requesters blocked, the later one of a priority above
\* the owner's baseline
C13_Witness ==
    /\ sched = "pip"
    /\ last.op = "release"
    /\ last.ok
    /\ last.pos >= 2
    /\ prio[last.p] > prio_orig[current]
    /\ prio[current] = prio_orig[current]

(* ------------------------------ C14 --------------------------------- *)
\* mutant: pcp_release restores the baseline priority before the assert
PrioAtAssertRestored ==
    IF sched = "pcp" THEN [prio EXCEPT ![current] = prio_orig[current]] ELSE prio

\* the priorities at assert(r->owner == current): in fcfs_release,
\* prio_release, pcp_release and pip_release the assert comes before every
\* assignment
PrioAtAssert == prio

\* release(r) by a process that does not own r: the assert of the release
\* function fails and the program is aborted
ReleaseAbort(r) ==
    /\ pc = "rel"
    /\ owner[r] # current
    /\ prio' = PrioAtAssert
    /\ pc' = "abort"
    /\ last' = [op |-> "abort", p |-> current, r |-> r, ok |-> FALSE, pos |-> 0]
    /\ UNCHANGED <<sched, current, readyqueue, owner, waitqueue, status, age,
                   lifespan, prio_orig, pending, nest, blockOrder, reqOrder,
                   plain, waited>>

\* the simulation with workloads that may release what they do not own
NextAbort ==
    \/ Next
    \/ \E r \in Res : ReleaseAbort(r)

SpecAbort == Init /\ [][NextAbort]_vars

\* C14: release(r) by a process that is not the owner of r aborts the program
\* with owner, wait sets, ready queue, statuses and priorities as they were
\* before the call, under every protocol; nothing runs after the abort.
C14_NonOwnerReleaseAborts ==
    [][/\ pc # "abort"
       /\ \A r \in Res :
             (pc = "rel" /\ owner[r] # current
                 /\ last'.op \in {"release", "abort"} /\ last'.r = r) =>
                /\ pc' = "abort"
                /\ UNCHANGED <<owner, waitqueue, readyqueue, status, prio,
                               prio_orig, current, age>>]_vars

\* an abort on a resource owned by another process, by a process whose
\* priority is not its baseline
C14_Witness ==
    /\ pc = "abort"
    /\ owner[last.r] \notin {None, current}
    /\ prio[current] # prio_orig[current]

(* ------------------------------ C15 --------------------------------- *)
\* the schedulers that select with prio_schedule
PrioScheduleScheds == {"prio", "pcp", "pip"}

\* C15: prio_schedule (Priority, PCP, PIP) returns and removes, from the
\* ready queue with the unfinished, non-blocked current process appended at
\* its tail, a process of a priority at least that of every process left,
\* the earliest of those of the largest priority; it returns none only when
\* that queue is empty.
C15_LargestPriorityFirst ==
    [][(ScheduleStep /\ sched \in PrioScheduleScheds) =>
          LET cand == IF current # None /\ status[current] # "WAIT"
                         /\ age[current] < lifespan[current]
                      THEN Append(readyqueue, current) ELSE readyqueue
          IN  IF cand = <<>>
              THEN current' = None /\ readyqueue' = readyqueue
              ELSE LET n == current'
                   IN  /\ InSeq(n, cand)
                       /\ \A i \in 1..Len(cand) :
                             /\ prio[cand[i]] <= prio[n]
                             /\ i < IndexOf(n, cand) => prio[cand[i]] < prio[n]
                       /\ readyqueue' = list_del_init(n, cand)
                       /\ prio' = prio]_vars

\* a process selected from behind one of lower priority, with one of equal
\* priority queued after it
C15_Witness ==
    /\ sched \in PrioScheduleScheds
    /\ last.op = "schedule"
    /\ current # None /\ last.p = current
    /\ last.pos >= 2
    /\ \E i \in 1..Len(readyqueue) :
          i >= last.pos /\ prio[readyqueue[i]] = prio[current]
    /\ \E i \in 1..Len(readyqueue) :
          i < last.pos /\ prio[readyqueue[i]] < prio[current]

(* ------------------------------ C16 --------------------------------- *)
\* C16 as stated: the Priority policy returns the unfinished, non-blocked
\* current process again when no ready process has a strictly larger
\* priority.
C16_KeepsCurrentOnTie ==
    [][(ScheduleStep /\ sched \in PrioScheduleScheds /\ HasRemaining
          /\ \A i \in 1..Len(readyqueue) : prio[readyqueue[i]] <= prio[current])
         => current' = current]_vars

\* C16, amended: the Priority policy returns the unfinished, non-blocked
\* current process again only when every ready process has a strictly
\* smaller priority; otherwise it returns the earliest ready process of the
\* largest priority, which may equal the priority of current, and current is
\* left at the tail of the ready queue.
C16_PreemptedOnTie ==
    [][(ScheduleStep /\ sched \in PrioScheduleScheds /\ HasRemaining) =>
          /\ current' = current <=>
                \A i \in 1..Len(readyqueue) : prio[readyqueue[i]] < prio[current]
          /\ current' # current =>
                LET n == current'
                IN  /\ InSeq(n, readyqueue)
                    /\ prio[n] >= prio[current]
                    /\ \A i \in 1..Len(readyqueue) :
                          /\ prio[readyqueue[i]] <= prio[n]
                          /\ i < IndexOf(n, readyqueue) => prio[readyqueue[i]] < prio[n]
                    /\ readyqueue' = list_add_tail(current,
                                                   list_del_init(n, readyqueue))]_vars

\* the process that ran the last tick sits at the tail of the ready queue,
\* preempted by a process of the same priority
C16_Witness ==
    /\ sched = "prio"
    /\ plain
    /\ \A p \in Procs : status[p] # "EXIT"
    /\ last.op = "schedule" /\ ~last.ok
    /\ current # None
    /\ readyqueue # <<>>
    /\ LET q == readyqueue[Len(readyqueue)]
       IN  /\ age[q] > 0
           /\ age[q] < lifespan[q]
           /\ prio[q] = prio[current]

(* ------------------------------ C17 --------------------------------- *)
\* C17: at the return of pa_schedule every process left in the ready queue
\* that was in it before the call has a priority larger by exactly 1, and the
\* unfinished current process the call has requeued and not selected again
\* has its baseline priority.
C17_AgingBookkeeping ==
    [][(ScheduleStep /\ sched = "pa") =>
          /\ \A p \in Procs :
                (InSeq(p, readyqueue) /\ InSeq(p, readyqueue')) =>
                   prio'[p] = prio[p] + 1
          /\ (HasRemaining /\ current' # current) =>
                /\ InSeq(current, readyqueue')
                /\ prio'[current] = prio_orig[current]]_vars

(* ------------------------------ C18 --------------------------------- *)
\* the schedulers that release with prio_release or pip_release
PrioReleaseScheds == {"prio", "pip"}

\* C18: prio_release and pip_release of r with waiters wake exactly one
\* waiter: its priority is at least that of every waiter left, it blocked
\* before every other waiter of that priority, it goes from WAIT to READY,
\* leaves the wait set and is appended once to the tail of the ready queue;
\* a release of r without waiters wakes nobody.
C18_PriorityWakeUp ==
    [][\A r \in Res :
          (ReleaseStep(r) /\ sched \in PrioReleaseScheds) =>
              IF blockOrder[r] = <<>>
              THEN /\ readyqueue' = readyqueue
                   /\ status' = status
                   /\ waitqueue' = waitqueue
              ELSE \E w \in Procs :
                       /\ InSeq(w, blockOrder[r])
                       /\ \A i \in 1..Len(blockOrder[r]) :
                             /\ prio[blockOrder[r][i]] <= prio[w]
                             /\ i < IndexOf(w, blockOrder[r]) =>
                                   prio[blockOrder[r][i]] < prio[w]
                       /\ \A p \in Procs : InSeq(p, waitqueue'[r]) => prio'[p] <= prio'[w]
                       /\ status[w] = "WAIT" /\ status'[w] = "READY"
                       /\ \A p \in Procs \ {w} : status'[p] = status[p]
                       /\ waitqueue' = [waitqueue EXCEPT ![r] = list_del_init(w, @)]
                       /\ ~InSeq(w, waitqueue'[r])
                       /\ readyqueue' = Append(readyqueue, w)
                       /\ Count(w, readyqueue') = 1
                       /\ blockOrder'[r] = list_del_init(w, blockOrder[r])]_vars

\* the waiter woken blocked after a waiter that is left behind, and every
\* waiter left behind has a lower priority
C18_Witness ==
    /\ sched \in PrioReleaseScheds
    /\ last.op = "release" /\ last.ok
    /\ last.pos >= 2
    /\ waitqueue[last.r] # <<>>
    /\ \A i \in 1..Len(waitqueue[last.r]) : prio[waitqueue[last.r][i]] < prio[last.p]
    /\ readyqueue[Len(readyqueue)] = last.p

(* ------------------------------ C19 --------------------------------- *)
\* C19: under PIP, in every reachable state, the owner of a resource has a
\* priority at least that of every process in the wait set of that resource.
C19_OwnerAtLeastWaiters ==
    sched = "pip" =>
        \A r \in Res : \A i \in 1..Len(waitqueue[r]) :
            owner[r] # None => prio[owner[r]] >= prio[waitqueue[r][i]]

(* ------------------------------ C20 --------------------------------- *)
\* every resource ends up free for good: each owner releases what it owns
OwnersRelease == <>[](\A r \in Res : owner[r] = None)

\* C20: under every protocol, when every owner releases what it owns, a
\* process in the wait set of a resource is eventually the owner of that
\* resource; an owner is not in the wait set of what it owns, and a process
\* leaves a wait set only by being made READY and put in the ready queue, so
\* no process stays in a wait set for ever.
C20_NoLostWakeUp ==
    /\ [][\A p \in Procs : \A r \in Res :
             (InSeq(p, waitqueue[r]) /\ ~InSeq(p, waitqueue'[r])) =>
                (status'[p] = "READY" /\ InSeq(p, readyqueue'))]_vars
    /\ [](\A r \in Res : owner[r] # None => ~InSeq(owner[r], waitqueue[r]))
    /\ (OwnersRelease =>
           \A p \in Procs : \A r \in Res :
               InSeq(p, waitqueue[r]) ~> (owner[r] = p))

\* a release wakes a waiter of a resource while a process woken by an
\* earlier release of the same resource is still queued for its retry
C20_Witness ==
    /\ last.op = "release" /\ last.ok
    /\ InSeq(last.p, readyqueue)
    /\ \E x \in Procs \ {last.p} :
          InSeq(x, readyqueue) /\ status[x] = "READY" /\ pending[x] = last.r

=============================================================================